---------------------------- MODULE Spec2Model ----------------------------
(***************************************************************************)
(* Model of ella.newman's admin module (ella/newman/admin.py) and of the   *)
(* selenium test helpers (tests/example_project/tests/test_newman/         *)
(* helpers.py).  The module holds five independent state machines, one per *)
(* unit of the code, each with its own specification:                      *)
(*   SpecSave    DevMessageAdmin.save_model                                *)
(*   SpecDate    DateTimeAssert.__init__ / is_equal                        *)
(*   SpecFilter  customized_date_field_filter                              *)
(*   SpecForm    NewmanTestCase.verify_form and its helpers                *)
(*   SpecCase    NewmanTestCase.setUp / login / logout / tearDown          *)
(* A specification leaves the variables of the other four at their idle    *)
(* values.                                                                 *)
(***************************************************************************)
EXTENDS Integers, Sequences, FiniteSets, TLC

VARIABLES
    \* ---- DevMessageAdmin.save_model
    obj,            \* obj[o]: the model instance o, [id, author]
    next_id,        \* the database's next auto-increment primary key
    db,             \* the stored rows: primary key -> author
    first_user,     \* history: request.user of the first save_model on o
    saves,          \* history: number of save_model calls on o
    last_user,      \* history: request.user of the latest save_model on o
    \* ---- DateTimeAssert
    dta,            \* the DateTimeAssert instance, None before __init__
    configured,     \* history: the allowed_delta argument given to __init__
    retrieved_value,\* the text handed to is_equal, None before the call
    result,         \* what is_equal did: "none", "True", "False", "ValueError"
    \* ---- customized_date_field_filter
    today,          \* datetime.date.today(): [year, month, day]
    fspec,          \* the filter specification handed to the handler
    \* ---- NewmanTestCase.verify_form
    data,           \* the argument: field -> [kind, spec]
    pos,            \* the field the loop is at, in iteration order
    list_pos,       \* positions of the current list already read
    errors,         \* the errors dictionary: field -> [expected, retrieved]
    outcome,        \* "running", "returned", "AssertionError", "raised"
    exception,      \* the exception that left verify_form, if one did
    message,        \* the AssertionError's message: its lines
    reads,          \* history: the driver calls made, [fn, field, number]
    mismatched,     \* history: the fields a comparison failed for
    last_retrieved, \* history: field -> the text of its latest failed comparison
    overwritten,    \* history: the fields whose error entry was written twice
    driver_raised,  \* history: the exception the driver raised
    \* ---- NewmanTestCase.setUp / login / logout / tearDown
    phase,          \* "setUp", "test", "tearDown", "done", "error"
    step,           \* statements of the phase's method already returned
    inflight,       \* the call that has been issued and has not returned
    log,            \* history: the calls issued, in order
    finished,       \* history: how many of them have returned or raised
    body            \* commands the test body has issued

\* A Python variable that holds None or a value v is the tuple <<>> or <<v>>.
None == <<>>
Some(v) == <<v>>
Val(x) == x[1]

\* Python truthiness of the values the model uses: None and 0 are false.
Falsy(x) == x = None \/ x = Some(0)

-----------------------------------------------------------------------------
(* DevMessageAdmin.save_model                                              *)

NumObjs == 2
NumUsers == 2
MaxSaves == 3

Objs == 1 .. NumObjs
Users == 1 .. NumUsers

saveVars == <<obj, next_id, db, first_user, saves, last_user>>

InitSave ==
    /\ obj = [o \in Objs |-> [id |-> None, author |-> None]]
    /\ next_id = 1
    /\ db = <<>>
    /\ first_user = [o \in Objs |-> None]
    /\ saves = [o \in Objs |-> 0]
    /\ last_user = [o \in Objs |-> None]

\* A faulty variant of stamp_author: the stamp is decided by the 'change' argument.
stamp_author_by_change(o, user, change) ==
    IF ~change THEN [o EXCEPT !.author = Some(user)] ELSE o

\* if not obj.id: obj.author = request.user
stamp_author(o, user, change) ==
    IF Falsy(o.id) THEN [o EXCEPT !.author = Some(user)] ELSE o

\* obj.save(): an instance without a primary key is inserted and gets the next
\* auto-increment key; one with a key is updated in place.
model_save_id(o) == IF o.id = None THEN Some(next_id) ELSE o.id

save_model(o, user, change) ==
    /\ saves[o] < MaxSaves
    /\ LET stamped == stamp_author(obj[o], user, change)
           saved == [stamped EXCEPT !.id = model_save_id(stamped)]
       IN  /\ obj' = [obj EXCEPT ![o] = saved]
           /\ next_id' = IF stamped.id = None THEN next_id + 1 ELSE next_id
           /\ db' = [k \in DOMAIN db \cup {Val(saved.id)} |->
                        IF k = Val(saved.id) THEN saved.author ELSE db[k]]
    /\ first_user' = IF saves[o] = 0 THEN [first_user EXCEPT ![o] = Some(user)]
                                     ELSE first_user
    /\ saves' = [saves EXCEPT ![o] = @ + 1]
    /\ last_user' = [last_user EXCEPT ![o] = Some(user)]

-----------------------------------------------------------------------------
(* DateTimeAssert: a datetime is the record of its seconds since the start  *)
(* of the hour the test runs in, a timedelta is a number of seconds.        *)

OneMinute == 60
MaxTime == 125
MaxMinute == 2
MaxDelta == 65

FormatMinutes == "%Y-%m-%d %H:%M"
FormatSeconds == "%Y-%m-%d %H:%M:%S"
DateFormats == {FormatMinutes, FormatSeconds}

\* A text read from the page: either the rendering of a time in one of the
\* date formats (the minute and second it shows), or some other string.
TextSeconds == {0, 30}
DateTexts ==
    {[format |-> FormatMinutes, minute |-> m, second |-> 0] : m \in 0 .. MaxMinute}
    \cup {[format |-> FormatSeconds, minute |-> m, second |-> s] :
            m \in 0 .. MaxMinute, s \in TextSeconds}

datetime(seconds) == [seconds |-> seconds]

ExpectedTimes == {datetime(t) : t \in 0 .. MaxTime}
Deltas == {None} \cup {Some(d) : d \in (0 - 1) .. MaxDelta}

dateVars == <<dta, configured, retrieved_value, result>>

InitDate ==
    /\ dta = None
    /\ configured = None
    /\ retrieved_value = None
    /\ result = "none"

\* A faulty variant of default_allowed_delta: only None is replaced by the default.
allowed_delta_unless_none(allowed_delta) ==
    IF allowed_delta = None THEN OneMinute ELSE Val(allowed_delta)

\* allowed_delta or timedelta(minutes=1)
default_allowed_delta(allowed_delta) ==
    IF Falsy(allowed_delta) THEN OneMinute ELSE Val(allowed_delta)

\* DateTimeAssert.__init__(expected_value, value_function_name, date_format,
\* allowed_delta)
DateTimeAssert(expected_value, value_function_name, date_format, allowed_delta) ==
    [class |-> "DateTimeAssert",
     expected_value |-> expected_value,
     value_function_name |-> value_function_name,
     date_format |-> date_format,
     allowed_delta |-> default_allowed_delta(allowed_delta)]

\* datetime.strptime(text, format) raises ValueError unless the text is a
\* rendering in that format; it returns the time the text shows.
strptime_raises(text, format) == text.format # format
strptime(text, format) == datetime(text.minute * 60 + text.second)

\* DateTimeAssert.is_equal, for a text that strptime accepts
is_equal(self, retrieved) ==
    LET retrieved_time == strptime(retrieved, self.date_format)
    IN  IF retrieved_time.seconds > self.expected_value.seconds
        THEN (retrieved_time.seconds - self.expected_value.seconds)
                <= self.allowed_delta
        ELSE (self.expected_value.seconds - retrieved_time.seconds)
                <= self.allowed_delta

BoolStr(b) == IF b THEN "True" ELSE "False"

NewDateTimeAssert(expected_value, date_format, allowed_delta) ==
    /\ dta = None
    /\ dta' = Some(DateTimeAssert(expected_value, "get_value", date_format,
                                  allowed_delta))
    /\ configured' = allowed_delta
    /\ UNCHANGED <<retrieved_value, result>>

CallIsEqual(text) ==
    /\ dta # None
    /\ result = "none"
    /\ retrieved_value' = Some(text)
    /\ result' = IF strptime_raises(text, Val(dta).date_format)
                 THEN "ValueError"
                 ELSE BoolStr(is_equal(Val(dta), text))
    /\ UNCHANGED <<dta, configured>>

-----------------------------------------------------------------------------
(* customized_date_field_filter.  A str value built by str() or strftime()  *)
(* is the sequence of its characters; a dictionary key built by '%' from    *)
(* the field path is a string.                                             *)

FirstYear == 2023
NumYears == 2
PastDays == 7

Years == (FirstYear .. FirstYear + NumYears) \cup {2099, 2100, 2101}

IsLeap(y) == (y % 4 = 0) /\ ((y % 100 # 0) \/ (y % 400 = 0))

DaysInMonth(y, m) ==
    IF m = 2 THEN (IF IsLeap(y) THEN 29 ELSE 28)
    ELSE IF m \in {4, 6, 9, 11} THEN 30 ELSE 31

Dates ==
    {date \in [year : Years, month : 1 .. 12, day : 1 .. 31] :
        date.day <= DaysInMonth(date.year, date.month)}

\* date.toordinal(): days since 0001-01-01, that day being 1
DaysBeforeYear(y) ==
    (y - 1) * 365 + ((y - 1) \div 4) - ((y - 1) \div 100) + ((y - 1) \div 400)

RECURSIVE DaysBeforeMonth(_, _)
DaysBeforeMonth(y, m) ==
    IF m = 1 THEN 0 ELSE DaysBeforeMonth(y, m - 1) + DaysInMonth(y, m - 1)

toordinal(date) ==
    DaysBeforeYear(date.year) + DaysBeforeMonth(date.year, date.month) + date.day

\* date.fromordinal(n), for the dates of a year from year - 1 to year + 1
fromordinal(n, year) ==
    LET y == CHOOSE z \in (year - 1) .. (year + 1) :
                 DaysBeforeYear(z) < n /\ n <= DaysBeforeYear(z + 1)
        m == CHOOSE k \in 1 .. 12 :
                 /\ DaysBeforeYear(y) + DaysBeforeMonth(y, k) < n
                 /\ n <= DaysBeforeYear(y) + DaysBeforeMonth(y, k) + DaysInMonth(y, k)
    IN  [year |-> y, month |-> m,
         day |-> n - DaysBeforeYear(y) - DaysBeforeMonth(y, m)]

\* A faulty variant of date_minus_days: the day of the month is lowered, and a
\* month boundary is crossed as if every month had 30 days.
date_minus_days_30(date, days) ==
    IF date.day > days THEN [date EXCEPT !.day = @ - days]
    ELSE IF date.month > 1
         THEN [date EXCEPT !.month = @ - 1, !.day = 30 + date.day - days]
         ELSE [year |-> date.year - 1, month |-> 12, day |-> 30 + date.day - days]

\* date - datetime.timedelta(days=days)
date_minus_days(date, days) == fromordinal(toordinal(date) - days, date.year)

Digits == <<"0", "1", "2", "3", "4", "5", "6", "7", "8", "9">>

\* str(n) of a non-negative int: its decimal digits, no padding
RECURSIVE str(_)
str(n) == IF n < 10 THEN <<Digits[n + 1]>>
          ELSE str(n \div 10) \o <<Digits[(n % 10) + 1]>>

\* A strftime number field: zero-padded to the field's width
Padded(n, width) ==
    LET digits == str(n)
    IN  [i \in 1 .. (width - Len(digits)) |-> "0"] \o digits

\* date.strftime('%Y-%m-%d')
strftime_ymd(date) ==
    Padded(date.year, 4) \o <<"-">> \o Padded(date.month, 2) \o <<"-">>
        \o Padded(date.day, 2)

EndOfDay == <<" ", "2", "3", ":", "5", "9", ":", "5", "9">>

\* date.strftime('%Y-%m-%d 23:59:59')
strftime_end_of_day(date) == strftime_ymd(date) \o EndOfDay

FieldKinds == {"DateField", "DateTimeField"}
FieldPaths == {"ts", "publish_from"}

\* The query parameters of the request
ParamKeys == {"ts__year", "publish_from__gte", "q"}
KeySuffixes == {"year", "gte"}
Params == UNION {[keys -> {<<"1">>}] : keys \in SUBSET ParamKeys}

\* k.startswith(prefix), for the keys of ParamKeys
startswith(k, prefix) == \E rest \in KeySuffixes : k = prefix \o rest

\* dict([(k, v) for k, v in params.items() if k.startswith(prefix)])
date_params(params, prefix) ==
    [k \in {j \in DOMAIN params : startswith(j, prefix)} |-> params[k]]

\* A faulty variant of today_link: the month and the day are strftime fields.
today_link_padded(path, date) ==
    (path \o "__year" :> str(date.year))
    @@ (path \o "__month" :> Padded(date.month, 2))
    @@ (path \o "__day" :> Padded(date.day, 2))

\* {'%s__year': str(today.year), '%s__month': str(today.month),
\*  '%s__day': str(today.day)}
today_link(path, date) ==
    (path \o "__year" :> str(date.year))
    @@ (path \o "__month" :> str(date.month))
    @@ (path \o "__day" :> str(date.day))

\* {'%s__gte': one_week_ago.strftime('%Y-%m-%d'), '%s__lte': today_str}
past_7_days_link(path, kind, date) ==
    LET one_week_ago == date_minus_days(date, PastDays)
        today_str == IF kind = "DateTimeField" THEN strftime_end_of_day(date)
                                               ELSE strftime_ymd(date)
    IN  (path \o "__gte" :> strftime_ymd(one_week_ago))
        @@ (path \o "__lte" :> today_str)

this_month_link(path, date) ==
    (path \o "__year" :> str(date.year)) @@ (path \o "__month" :> str(date.month))

this_year_link(path, date) == (path \o "__year" :> str(date.year))

links(path, kind, date) ==
    << [title |-> "Any date", params |-> <<>>],
       [title |-> "Today", params |-> today_link(path, date)],
       [title |-> "Past 7 days", params |-> past_7_days_link(path, kind, date)],
       [title |-> "This month", params |-> this_month_link(path, date)],
       [title |-> "This year", params |-> this_year_link(path, date)] >>

filterVars == <<today, fspec>>

NewFilterSpec(kind, path, params) ==
    [field |-> kind, field_path |-> path, params |-> params,
     field_generic |-> None, date_params |-> None, links |-> None]

InitFilter ==
    /\ today \in Dates
    /\ \E kind \in FieldKinds, path \in FieldPaths, params \in Params :
            fspec = NewFilterSpec(kind, path, params)

IdleFilter ==
    /\ today = [year |-> FirstYear, month |-> 1, day |-> 1]
    /\ fspec = NewFilterSpec("DateField", "ts", <<>>)

customized_date_field_filter ==
    /\ fspec.links = None
    /\ fspec' = [fspec EXCEPT
            !.field_generic = Some(fspec.field_path \o "__"),
            !.date_params = Some(date_params(fspec.params, fspec.field_path \o "__")),
            !.links = Some(links(fspec.field_path, fspec.field, today))]
    /\ UNCHANGED today

-----------------------------------------------------------------------------
(* NewmanTestCase.verify_form.  The fields of data are numbered in the      *)
(* order the dictionary iterates them.  A text of the page is a record: a   *)
(* plain string [format |-> "text", chars], or the rendering of a time as   *)
(* in DateTexts.  A Python list is the record [items |-> <<...>>].           *)

NumFields == 2
MaxListLen == 2

FormFields == 1 .. NumFields

PlainText(chars) == [format |-> "text", chars |-> chars]
ClockText == [format |-> FormatMinutes, minute |-> 1, second |-> 0]
ListTexts == {PlainText("a"), PlainText("b")}
FormTexts == ListTexts \cup {ClockText}
DriverErrors == {"ERROR: Element not found", "Timed out"}

\* What a driver call does: it returns a text or raises an exception
DriverResults ==
    {[returns |-> text] : text \in FormTexts}
    \cup {[raises |-> e] : e \in DriverErrors}
Raises(r) == "raises" \in DOMAIN r

PyList(items) == [items |-> items]
isinstance_list(v) == "items" \in DOMAIN v
isinstance_datetime(v) == "seconds" \in DOMAIN v

\* FormAssertSpec.__init__
FormAssertSpec(expected_value, value_function_name) ==
    [class |-> "FormAssertSpec",
     expected_value |-> expected_value,
     value_function_name |-> value_function_name]

\* spec.is_equal(text) raises: only DateTimeAssert's strptime can
spec_is_equal_raises(spec, text) ==
    /\ spec.class = "DateTimeAssert"
    /\ strptime_raises(text, spec.date_format)

\* spec.is_equal(text): FormAssertSpec.is_equal, or DateTimeAssert's override
spec_is_equal(spec, text) ==
    IF spec.class = "DateTimeAssert" THEN is_equal(spec, text)
    ELSE text = spec.expected_value

\* The expected items of a suggester field: "a", "b", "a", ... to length n
ExpectedItems(n) ==
    [i \in 1 .. n |-> IF i % 2 = 1 THEN PlainText("a") ELSE PlainText("b")]

\* The values data maps a field to
FormExpectedTimes == {datetime(0), datetime(150)}
FieldSpecs ==
    {[kind |-> "spec", spec |-> FormAssertSpec(PlainText("a"), fn)] :
        fn \in {"get_value", "get_text"}}
    \cup {[kind |-> "spec",
           spec |-> DateTimeAssert(e, "get_value", FormatMinutes, None)] :
            e \in FormExpectedTimes}
    \cup {[kind |-> "list", spec |-> PyList(ExpectedItems(n))] :
            n \in 0 .. MaxListLen}
    \cup {[kind |-> "plain", spec |-> PlainText("a")]}

formVars == <<data, pos, list_pos, errors, outcome, exception, message, reads,
              mismatched, last_retrieved, overwritten, driver_raised>>

FormStart(d) ==
    /\ data = d
    /\ pos = 1
    /\ list_pos = 0
    /\ errors = <<>>
    /\ outcome = "running"
    /\ exception = None
    /\ message = None
    /\ reads = <<>>
    /\ mismatched = {}
    /\ last_retrieved = <<>>
    /\ overwritten = {}
    /\ driver_raised = None

InitForm == \E d \in [FormFields -> FieldSpecs] : FormStart(d)

IdleForm == FormStart([f \in FormFields |-> [kind |-> "plain", spec |-> PlainText("a")]])

\* A faulty variant of add_error: the new entry replaces the dictionary.
add_error_replacing(errs, field, expected, retrieved) ==
    (field :> [expected |-> expected, retrieved |-> retrieved])

\* A faulty variant of add_error: a field's first entry is kept.
add_error_keep_first(errs, field, expected, retrieved) ==
    IF field \in DOMAIN errs THEN errs
    ELSE (field :> [expected |-> expected, retrieved |-> retrieved]) @@ errs

\* add_error: errors[field] = {'expected': expected, 'retrieved': retrieved}
add_error(errs, field, expected, retrieved) ==
    (field :> [expected |-> expected, retrieved |-> retrieved]) @@ errs

\* u"".join(items)
RECURSIVE join(_)
join(items) ==
    IF items = <<>> THEN ""
    ELSE join(SubSeq(items, 1, Len(items) - 1)) \o items[Len(items)].chars

\* '%s' % v: a text as it is, a datetime as str() prints it
format_value(v) ==
    IF isinstance_datetime(v)
    THEN [format |-> FormatSeconds, minute |-> v.seconds \div 60,
          second |-> v.seconds % 60]
    ELSE v

\* One line of get_formatted_form_errors
format_error(field, entry) ==
    [field |-> field,
     expected |-> IF isinstance_list(entry.expected)
                  THEN PlainText(join(entry.expected.items))
                  ELSE format_value(entry.expected),
     retrieved |-> IF isinstance_list(entry.retrieved)
                   THEN PlainText(join(entry.retrieved.items))
                   ELSE format_value(entry.retrieved)]

\* get_formatted_form_errors: the lines that '\n'.join makes the message of,
\* in the order of the fields
get_formatted_form_errors(errs) ==
    LET fields == SelectSeq([i \in 1 .. NumFields |-> i],
                            LAMBDA f : f \in DOMAIN errs)
    IN  [i \in 1 .. Len(fields) |-> format_error(fields[i], errs[fields[i]])]

\* A faulty variant of on_exception: the mismatches found so far are reported.
on_exception_reporting(errs, e) ==
    IF DOMAIN errs # {}
    THEN [outcome |-> "AssertionError",
          exception |-> Some(get_formatted_form_errors(errs)),
          message |-> Some(get_formatted_form_errors(errs))]
    ELSE [outcome |-> "raised", exception |-> Some(e), message |-> None]

\* verify_form has no try statement: an exception raised under it leaves it
on_exception(errs, e) ==
    [outcome |-> "raised", exception |-> Some(e), message |-> None]

Leave(how) ==
    /\ outcome' = how.outcome
    /\ exception' = how.exception
    /\ message' = how.message

\* The driver call fn(locator of field, number) raised e
DriverRaises(fn, field, number, e) ==
    /\ reads' = Append(reads, [fn |-> fn, field |-> field, number |-> number])
    /\ driver_raised' = Some(e)
    /\ Leave(on_exception(errors, e))
    /\ UNCHANGED <<data, pos, list_pos, errors, mismatched, last_retrieved,
                   overwritten>>

\* A comparison of field failed: self.add_error(errors, field, expected, text)
Mismatch(field, expected, text) ==
    /\ errors' = add_error(errors, field, expected, text)
    /\ mismatched' = mismatched \cup {field}
    /\ last_retrieved' = (field :> text) @@ last_retrieved
    /\ overwritten' = IF field \in mismatched /\ last_retrieved[field] # text
                      THEN overwritten \cup {field} ELSE overwritten

Match == UNCHANGED <<errors, mismatched, last_retrieved, overwritten>>

\* if isinstance(spec, FormAssertSpec): one read by spec.value_function_name
VerifySpecField(r) ==
    LET field == pos
        spec == data[field].spec
        fn == spec.value_function_name
        text == r.returns
    IN  \/ /\ Raises(r)
           /\ DriverRaises(fn, field, 0, r.raises)
        \/ /\ ~Raises(r)
           /\ reads' = Append(reads, [fn |-> fn, field |-> field, number |-> 0])
           /\ IF spec_is_equal_raises(spec, text)
              THEN /\ Leave(on_exception(errors, "ValueError"))
                   /\ UNCHANGED <<pos, errors, mismatched, last_retrieved,
                                   overwritten>>
              ELSE /\ IF ~spec_is_equal(spec, text)
                      THEN Mismatch(field, spec.expected_value, text)
                      ELSE Match
                   /\ pos' = pos + 1
                   /\ UNCHANGED <<outcome, exception, message>>
           /\ UNCHANGED <<data, list_pos, driver_raised>>

\* elif isinstance(spec, list): get_text of position list_pos + 1
VerifyListItem(r) ==
    LET field == pos
        spec == data[field].spec
        i == list_pos
        text == r.returns
    IN  \/ /\ Raises(r)
           /\ DriverRaises("get_text", field, i + 1, r.raises)
        \/ /\ ~Raises(r)
           /\ reads' = Append(reads, [fn |-> "get_text", field |-> field,
                                      number |-> i + 1])
           /\ IF text # spec.items[i + 1] THEN Mismatch(field, spec, text) ELSE Match
           /\ list_pos' = i + 1
           /\ UNCHANGED <<data, pos, outcome, exception, message, driver_raised>>

\* The xrange of a list is exhausted: on to the next field
VerifyListEnd ==
    /\ pos' = pos + 1
    /\ list_pos' = 0
    /\ UNCHANGED <<data, errors, outcome, exception, message, reads,
                   mismatched, last_retrieved, overwritten, driver_raised>>

\* else: get_value('id_%s' % field) compared with the value itself
VerifyPlainField(r) ==
    LET field == pos
        spec == data[field].spec
        text == r.returns
    IN  \/ /\ Raises(r)
           /\ DriverRaises("get_value", field, 0, r.raises)
        \/ /\ ~Raises(r)
           /\ reads' = Append(reads, [fn |-> "get_value", field |-> field,
                                      number |-> 0])
           /\ IF text # spec THEN Mismatch(field, spec, text) ELSE Match
           /\ pos' = pos + 1
           /\ UNCHANGED <<data, list_pos, outcome, exception, message,
                          driver_raised>>

\* if len(errors) > 0: raise AssertionError(self.get_formatted_form_errors(errors))
VerifyFinish ==
    /\ IF Cardinality(DOMAIN errors) > 0
       THEN Leave([outcome |-> "AssertionError",
                   exception |-> Some(get_formatted_form_errors(errors)),
                   message |-> Some(get_formatted_form_errors(errors))])
       ELSE Leave([outcome |-> "returned", exception |-> None, message |-> None])
    /\ UNCHANGED <<data, pos, list_pos, errors, reads, mismatched,
                   last_retrieved, overwritten, driver_raised>>

AtField(kind) == outcome = "running" /\ pos \in FormFields /\ data[pos].kind = kind

-----------------------------------------------------------------------------
(* NewmanTestCase.setUp, login, logout and tearDown around a test body.     *)
(* A call is the record [op, args]; a driver command has self.selenium's    *)
(* method as op.                                                           *)

MaxBodyCommands == 2

NEWMAN_URI == "/newman/"
USER_USERNAME == "superman"
USER_PASSWORD == "xxx"

\* self.elements, the entries used here
elements ==
    [navigation |-> [logout |-> "//a[@class='icn logout']"],
     controls |-> [save |-> "//a[@class='js-submit icn btn save def']",
                   message |-> [ok |-> "//div[@id='opmsg']/span[@class='okmsg']"]],
     pages |-> [login |-> [submit |-> "//input[@type='submit']"]]]

Call(op, args) == [op |-> op, args |-> args]

\* A faulty variant of login: the password is typed before the page is opened.
login_password_first ==
    << Call("type", <<"id_password", USER_PASSWORD>>),
       Call("open", <<NEWMAN_URI>>),
       Call("type", <<"id_username", USER_USERNAME>>),
       Call("click", <<elements.pages.login.submit>>),
       Call("wait_for_page_to_load", <<"30000">>),
       Call("sleep", <<"0.2">>) >>

\* login: the statements of the method, in order
login ==
    << Call("open", <<NEWMAN_URI>>),
       Call("type", <<"id_username", USER_USERNAME>>),
       Call("type", <<"id_password", USER_PASSWORD>>),
       Call("click", <<elements.pages.login.submit>>),
       Call("wait_for_page_to_load", <<"30000">>),
       Call("sleep", <<"0.2">>) >>

\* setUp: super(NewmanTestCase, self).setUp(); self.login()
setUp == <<Call("super.setUp", <<>>)>> \o login

\* logout
logout ==
    << Call("click", <<elements.navigation.logout>>),
       Call("wait_for_element_present", <<"id_username">>) >>

\* tearDown: self.logout(); super(NewmanTestCase, self).tearDown()
tearDown == logout \o <<Call("super.tearDown", <<>>)>>

\* The driver commands a test body issues through the helpers: fill_fields,
\* save_form, verify_form
BodyCommands ==
    { Call("type", <<"id_title", "a">>),
      Call("click", <<elements.controls.save>>),
      Call("wait_for_element_present", <<elements.controls.message.ok>>),
      Call("get_value", <<"id_title">>) }

DriverOps == {"open", "type", "click", "get_text", "get_value",
              "wait_for_element_present", "wait_for_page_to_load"}

caseVars == <<phase, step, inflight, log, finished, body>>

InitCase ==
    /\ phase = "setUp"
    /\ step = 0
    /\ inflight = None
    /\ log = <<>>
    /\ finished = 0
    /\ body = 0

\* A test case whose run is over
IdleCase ==
    /\ phase = "done"
    /\ step = 0
    /\ inflight = None
    /\ log = <<>>
    /\ finished = 0
    /\ body = 0

Method(p) == IF p = "setUp" THEN setUp ELSE tearDown

Issue(call) ==
    /\ inflight' = Some(call)
    /\ log' = Append(log, call)

\* setUp or tearDown makes its next call, which blocks until it returns
MethodCall ==
    /\ phase \in {"setUp", "tearDown"}
    /\ inflight = None
    /\ step < Len(Method(phase))
    /\ Issue(Method(phase)[step + 1])
    /\ UNCHANGED <<phase, step, finished, body>>

\* The call of setUp or tearDown returns; after the method's last statement
\* the runner goes on: setUp is followed by the test body, tearDown ends the run
MethodReturn ==
    /\ phase \in {"setUp", "tearDown"}
    /\ inflight # None
    /\ inflight' = None
    /\ finished' = finished + 1
    /\ IF step + 1 = Len(Method(phase))
       THEN /\ phase' = (IF phase = "setUp" THEN "test" ELSE "done")
            /\ step' = 0
       ELSE /\ phase' = phase
            /\ step' = step + 1
    /\ UNCHANGED <<log, body>>

\* The test body issues a driver command through a helper
BodyCall(call) ==
    /\ phase = "test"
    /\ inflight = None
    /\ body < MaxBodyCommands
    /\ Issue(call)
    /\ body' = body + 1
    /\ UNCHANGED <<phase, step, finished>>

BodyReturn ==
    /\ phase = "test"
    /\ inflight # None
    /\ inflight' = None
    /\ finished' = finished + 1
    /\ UNCHANGED <<phase, step, log, body>>

\* The test body returns: the runner calls tearDown
BodyEnd ==
    /\ phase = "test"
    /\ inflight = None
    /\ phase' = "tearDown"
    /\ step' = 0
    /\ UNCHANGED <<inflight, log, finished, body>>

\* The driver command in flight raises: the exception leaves the method.
\* The runner calls tearDown after a failed test body, and nothing after a
\* failed setUp or tearDown.
DriverCommandRaises ==
    /\ inflight # None
    /\ Val(inflight).op \in DriverOps
    /\ inflight' = None
    /\ phase' = (IF phase = "test" THEN "tearDown" ELSE "error")
    /\ step' = 0
    /\ finished' = finished + 1
    /\ UNCHANGED <<log, body>>

-----------------------------------------------------------------------------
(* Specifications                                                          *)

vars == <<saveVars, dateVars, filterVars, formVars, caseVars>>

NextSave ==
    /\ \E o \in Objs, user \in Users, change \in BOOLEAN : save_model(o, user, change)
    /\ UNCHANGED <<dateVars, filterVars, formVars, caseVars>>

SaveInit == InitSave /\ InitDate /\ IdleFilter /\ IdleForm /\ IdleCase

SpecSave == SaveInit /\ [][NextSave]_vars

NextDate ==
    \/ /\ dta = None
       /\ \E e \in ExpectedTimes, f \in DateFormats, d \in Deltas :
            NewDateTimeAssert(e, f, d)
       /\ UNCHANGED <<saveVars, filterVars, formVars, caseVars>>
    \/ /\ dta # None
       /\ \E text \in DateTexts : CallIsEqual(text)
       /\ UNCHANGED <<saveVars, filterVars, formVars, caseVars>>

DateInit == InitSave /\ InitDate /\ IdleFilter /\ IdleForm /\ IdleCase

SpecDate == DateInit /\ [][NextDate]_vars

NextFilter ==
    /\ customized_date_field_filter
    /\ UNCHANGED <<saveVars, dateVars, formVars, caseVars>>

FilterInit == InitSave /\ InitDate /\ InitFilter /\ IdleForm /\ IdleCase

SpecFilter == FilterInit /\ [][NextFilter]_vars

\* verify_form, one step at a time
NextForm ==
    \/ /\ AtField("spec")
       /\ \E r \in DriverResults : VerifySpecField(r)
       /\ UNCHANGED <<saveVars, dateVars, filterVars, caseVars>>
    \/ /\ AtField("list") /\ list_pos < Len(data[pos].spec.items)
       /\ \E r \in DriverResults : VerifyListItem(r)
       /\ UNCHANGED <<saveVars, dateVars, filterVars, caseVars>>
    \/ /\ AtField("list") /\ list_pos = Len(data[pos].spec.items)
       /\ VerifyListEnd
       /\ UNCHANGED <<saveVars, dateVars, filterVars, caseVars>>
    \/ /\ AtField("plain")
       /\ \E r \in DriverResults : VerifyPlainField(r)
       /\ UNCHANGED <<saveVars, dateVars, filterVars, caseVars>>
    \/ /\ outcome = "running" /\ pos = NumFields + 1
       /\ VerifyFinish
       /\ UNCHANGED <<saveVars, dateVars, filterVars, caseVars>>

FormInit == InitSave /\ InitDate /\ IdleFilter /\ InitForm /\ IdleCase

SpecForm == FormInit /\ [][NextForm]_vars

\* One test method of a NewmanTestCase, run by the test runner
NextCase ==
    \/ MethodCall /\ UNCHANGED <<saveVars, dateVars, filterVars, formVars>>
    \/ MethodReturn /\ UNCHANGED <<saveVars, dateVars, filterVars, formVars>>
    \/ /\ \E call \in BodyCommands : BodyCall(call)
       /\ UNCHANGED <<saveVars, dateVars, filterVars, formVars>>
    \/ BodyReturn /\ UNCHANGED <<saveVars, dateVars, filterVars, formVars>>
    \/ BodyEnd /\ UNCHANGED <<saveVars, dateVars, filterVars, formVars>>
    \/ DriverCommandRaises /\ UNCHANGED <<saveVars, dateVars, filterVars, formVars>>

CaseInit == InitSave /\ InitDate /\ IdleFilter /\ IdleForm /\ InitCase

SpecCase == CaseInit /\ [][NextCase]_vars

-----------------------------------------------------------------------------
(* Properties of save_model                                                *)

\* C1: after any sequence of save_model calls on one record by arbitrary
\* users, the record has a primary key and its author, in memory and in its
\* stored row, is the user of the first save, whatever 'change' was given.
C1_AuthorIsFirstSaver ==
    \A o \in Objs :
        saves[o] > 0 =>
            /\ obj[o].id # None
            /\ obj[o].author = first_user[o]
            /\ db[Val(obj[o].id)] = first_user[o]

\* A record saved at least twice, last by another user than the first.
C1_Witness ==
    \E o \in Objs : saves[o] >= 2 /\ last_user[o] # first_user[o]

-----------------------------------------------------------------------------
(* Properties of DateTimeAssert                                            *)

HalfMinute == 30

Abs(n) == IF n < 0 THEN 0 - n ELSE n

Decided == result \in {"True", "False"}

\* |retrieved - expected| of the is_equal call made
Diff ==
    Abs(strptime(Val(retrieved_value), Val(dta).date_format).seconds
            - Val(dta).expected_value.seconds)

\* C3: the two timestamps are considered equal if and only if their absolute
\* difference is <= the configured tolerance, one minute when none is
\* configured.
C3_EqualIffWithinConfigured ==
    Decided =>
        ((result = "True") <=>
            Diff <= (IF configured = None THEN OneMinute ELSE Val(configured)))

\* C4: as the docstring says, the two dates are equal if and only if their
\* difference is less than allowed_delta, half a minute when none is given.
C4_EqualIffLessThanDocumented ==
    Decided =>
        ((result = "True") <=>
            Diff < (IF configured = None THEN HalfMinute ELSE Val(configured)))

-----------------------------------------------------------------------------
(* Properties of customized_date_field_filter                              *)

\* The value of a sequence of decimal digits
RECURSIVE DecVal(_)
DecVal(chars) ==
    IF chars = <<>> THEN 0
    ELSE 10 * DecVal(SubSeq(chars, 1, Len(chars) - 1))
            + (CHOOSE d \in 0 .. 9 : Digits[d + 1] = chars[Len(chars)])

IsDigits(chars) ==
    /\ chars # <<>>
    /\ \A i \in 1 .. Len(chars) : \E d \in 1 .. 10 : chars[i] = Digits[d]

\* chars is the decimal string of n: digits, no leading zero
IsDecimalOf(chars, n) ==
    /\ IsDigits(chars)
    /\ Len(chars) > 1 => chars[1] # "0"
    /\ DecVal(chars) = n

\* chars reads YYYY-MM-DD and names the date
IsYmdOf(chars, date) ==
    /\ Len(chars) = 10
    /\ chars[5] = "-" /\ chars[8] = "-"
    /\ IsDigits(SubSeq(chars, 1, 4)) /\ DecVal(SubSeq(chars, 1, 4)) = date.year
    /\ IsDigits(SubSeq(chars, 6, 7)) /\ DecVal(SubSeq(chars, 6, 7)) = date.month
    /\ IsDigits(SubSeq(chars, 9, 10)) /\ DecVal(SubSeq(chars, 9, 10)) = date.day

\* The calendar day after date
NextDay(date) ==
    IF date.day < DaysInMonth(date.year, date.month)
    THEN [date EXCEPT !.day = @ + 1]
    ELSE IF date.month < 12
         THEN [date EXCEPT !.month = @ + 1, !.day = 1]
         ELSE [year |-> date.year + 1, month |-> 1, day |-> 1]

RECURSIVE DaysLater(_, _)
DaysLater(date, n) == IF n = 0 THEN date ELSE DaysLater(NextDay(date), n - 1)

\* The date that chars, read as YYYY-MM-DD, shows
ParseYmd(chars) ==
    [year |-> DecVal(SubSeq(chars, 1, 4)),
     month |-> DecVal(SubSeq(chars, 6, 7)),
     day |-> DecVal(SubSeq(chars, 9, 10))]

IsDate(date) ==
    /\ date.month \in 1 .. 12
    /\ date.day \in 1 .. DaysInMonth(date.year, date.month)

\* C5: the "Today" link's query parameters are exactly p__year, p__month and
\* p__day, valued the current year, month and day as decimal strings, for
\* date and timestamp fields alike.
C5_TodayLink ==
    fspec.links # None =>
        LET link == Val(fspec.links)[2]
            p == fspec.field_path
        IN  /\ link.title = "Today"
            /\ DOMAIN link.params = {p \o "__year", p \o "__month", p \o "__day"}
            /\ Cardinality(DOMAIN link.params) = 3
            /\ IsDecimalOf(link.params[p \o "__year"], today.year)
            /\ IsDecimalOf(link.params[p \o "__month"], today.month)
            /\ IsDecimalOf(link.params[p \o "__day"], today.day)

\* The handler ran for a timestamp field on a day whose month and day have
\* one digit.
C5_Witness ==
    /\ fspec.links # None
    /\ fspec.field = "DateTimeField"
    /\ today.month < 10 /\ today.day < 10

\* C6: the "Past 7 days" link is the range p__gte .. p__lte whose lower bound
\* is the bare date exactly 7 days before today and whose upper bound is
\* today: the bare date for a date field, today's 23:59:59 for a timestamp
\* field.
C6_Past7Days ==
    fspec.links # None =>
        LET link == Val(fspec.links)[3]
            p == fspec.field_path
            gte == link.params[p \o "__gte"]
            lte == link.params[p \o "__lte"]
        IN  /\ link.title = "Past 7 days"
            /\ DOMAIN link.params = {p \o "__gte", p \o "__lte"}
            /\ Len(gte) = 10
            /\ IsYmdOf(gte, ParseYmd(gte))
            /\ IsDate(ParseYmd(gte))
            /\ DaysLater(ParseYmd(gte), PastDays) = today
            /\ IF fspec.field = "DateTimeField"
               THEN /\ Len(lte) = 19
                    /\ IsYmdOf(SubSeq(lte, 1, 10), today)
                    /\ SubSeq(lte, 11, 19) = EndOfDay
               ELSE IsYmdOf(lte, today)

\* The handler ran for a timestamp field in the first week of a year: the
\* lower bound lies in the year before.
C6_Witness ==
    /\ fspec.links # None
    /\ fspec.field = "DateTimeField"
    /\ today.month = 1 /\ today.day <= PastDays

-----------------------------------------------------------------------------
(* Properties of verify_form                                               *)

\* The loop ran over every field: verify_form returned or raised its own
\* AssertionError
Completed == outcome \in {"returned", "AssertionError"}

\* The driver calls the check of field f takes
ReadsOf(f) ==
    LET d == data[f]
    IN  IF d.kind = "list"
        THEN {[fn |-> "get_text", field |-> f, number |-> n] :
                n \in 1 .. Len(d.spec.items)}
        ELSE IF d.kind = "spec"
             THEN {[fn |-> d.spec.value_function_name, field |-> f, number |-> 0]}
             ELSE {[fn |-> "get_value", field |-> f, number |-> 0]}

ReadsMade == {reads[i] : i \in 1 .. Len(reads)}

\* The expected value of field f as a message shows it
ExpectedShown(f) ==
    LET d == data[f]
    IN  IF d.kind = "list" THEN PlainText(join(d.spec.items))
        ELSE IF d.kind = "spec" THEN format_value(d.spec.expected_value)
             ELSE d.spec

MessageLines == {Val(message)[i] : i \in 1 .. Len(Val(message))}

\* C2: every field is checked; if one or more fields mismatch, a single
\* AssertionError is raised after the last field, whose message has a line
\* for every mismatched field, with its expected and its retrieved value, and
\* none for a matching field; if no field mismatches, nothing is raised.
C2_CollectsAllMismatches ==
    /\ outcome = "AssertionError" => pos = NumFields + 1
    /\ Completed =>
        /\ \A f \in FormFields : ReadsOf(f) \subseteq ReadsMade
        /\ IF mismatched = {}
           THEN outcome = "returned" /\ message = None /\ exception = None
           ELSE /\ outcome = "AssertionError"
                /\ exception = message
                /\ Len(Val(message)) = Cardinality(mismatched)
                /\ {line.field : line \in MessageLines} = mismatched
                /\ \A line \in MessageLines :
                        /\ line.expected = ExpectedShown(line.field)
                        /\ line.retrieved = last_retrieved[line.field]

\* verify_form failed with two or more mismatched fields.
C2_Witness ==
    /\ outcome = "AssertionError"
    /\ Cardinality(mismatched) >= 2

\* C7: an exception the driver raises while verify_form reads a field leaves
\* verify_form as it is: verify_form ends there, the exception it ends with is
\* the driver's, and no AssertionError reports the mismatches of the earlier
\* fields.
C7_DriverExceptionPropagates ==
    /\ driver_raised # None =>
        /\ outcome = "raised"
        /\ message = None
        /\ exception = driver_raised
        /\ pos \in FormFields
        /\ reads # <<>> /\ reads[Len(reads)] \in ReadsOf(pos)
    /\ outcome = "AssertionError" => driver_raised = None

\* The driver raised after a mismatch had been found.
C7_Witness ==
    /\ driver_raised # None
    /\ outcome = "raised"
    /\ mismatched # {}

\* C10: the errors dictionary holds at most one entry per field, that of the
\* field's latest mismatch: for a list-valued expectation every position 1..n
\* is read with get_text, the entry holds the whole expected list and the text
\* retrieved at the last mismatching position, and the message has no more
\* lines than there are fields.
C10_OneEntryPerField ==
    /\ DOMAIN errors = mismatched
    /\ \A f \in DOMAIN errors :
        /\ errors[f].retrieved = last_retrieved[f]
        /\ data[f].kind = "list" => errors[f].expected = data[f].spec
    /\ Completed =>
        \A f \in FormFields :
            data[f].kind = "list" =>
                {r \in ReadsMade : r.field = f} = ReadsOf(f)
    /\ outcome = "AssertionError" =>
        /\ Len(Val(message)) <= NumFields
        /\ \A i, j \in 1 .. Len(Val(message)) :
                Val(message)[i].field = Val(message)[j].field => i = j
        /\ \A line \in MessageLines :
                data[line.field].kind = "list" =>
                    /\ line.expected = PlainText(join(data[line.field].spec.items))
                    /\ line.retrieved = last_retrieved[line.field]

\* verify_form failed after a list field's entry was overwritten by a later
\* position's different text.
C10_Witness ==
    /\ outcome = "AssertionError"
    /\ overwritten # {}

-----------------------------------------------------------------------------
(* Properties of the test case's command ordering                          *)

\* What setUp is to issue: the parent's setUp, then login's five driver
\* commands and its sleep
SetUpOrder ==
    << [op |-> "super.setUp", args |-> <<>>],
       [op |-> "open", args |-> <<"/newman/">>],
       [op |-> "type", args |-> <<"id_username", "superman">>],
       [op |-> "type", args |-> <<"id_password", "xxx">>],
       [op |-> "click", args |-> <<"//input[@type='submit']">>],
       [op |-> "wait_for_page_to_load", args |-> <<"30000">>],
       [op |-> "sleep", args |-> <<"0.2">>] >>

\* What tearDown is to issue: logout's click and wait, then the parent's
\* tearDown
TearDownOrder ==
    << [op |-> "click", args |-> <<"//a[@class='icn logout']">>],
       [op |-> "wait_for_element_present", args |-> <<"id_username">>],
       [op |-> "super.tearDown", args |-> <<>>] >>

\* C8: the calls are issued one at a time, each after the one before it has
\* returned; the first are the parent's setUp and login's open, type, type,
\* click, wait_for_page_to_load and sleep, in that order, all returned before
\* any command of the test body; after the body come the logout click, the
\* wait for 'id_username' and then the parent's tearDown.
C8_CommandOrdering ==
    LET n == Len(SetUpOrder)
    IN  /\ \/ inflight = None /\ finished = Len(log)
           \/ inflight # None /\ finished + 1 = Len(log)
                /\ inflight = Some(log[Len(log)])
        /\ Len(log) <= n + body + Len(TearDownOrder)
        /\ \A i \in 1 .. Len(log) :
            /\ i <= n => log[i] = SetUpOrder[i]
            /\ (i > n /\ i <= n + body) => log[i] \in BodyCommands
            /\ i > n + body => log[i] = TearDownOrder[i - n - body]
        /\ (Len(log) > n \/ phase \in {"test", "tearDown", "done"}) =>
                /\ finished >= n
                /\ \A i \in 1 .. n : log[i] = SetUpOrder[i]
        /\ phase = "done" =>
                /\ Len(log) = n + body + Len(TearDownOrder)
                /\ finished = Len(log)

\* A run that is over: setUp, a body of at least one command, tearDown.
C8_Witness ==
    /\ phase = "done"
    /\ body >= 1
    /\ log # <<>>

=============================================================================
